---- MODULE Spec2Model ----
(***************************************************************************)
(* Session lifecycle of pages/2_Chatbot_Agent.py: the two API keys, the    *)
(* lazily built agent handle and the chat history kept in                  *)
(* st.session_state, driven by Streamlit script runs.  Every user event    *)
(* (a button click, a chat submission, a plain rerun) runs the script from *)
(* top to bottom; st.rerun() restarts it and st.stop() ends it.  One       *)
(* action is one such event with all the script runs it causes; the only   *)
(* place a run is split is the blocking agent.invoke call of line 233,     *)
(* which either returns or raises.                                         *)
(*                                                                         *)
(* Strings that the code inspects (the keys) are sequences of characters,  *)
(* so that startswith is computed; message contents are opaque strings.    *)
(***************************************************************************)
EXTENDS Integers, Sequences, FiniteSets, TLC

\* ------------------------------------------------------------------ bounds
MaxHistory == 4      \* chat submissions stop when history could exceed this
MaxBuilds == 3       \* create_react_agent calls explored per session

\* ------------------------------------------------------- program constants
None == 0            \* st.session_state.agent = None (handles are 1, 2, ...)
SkPrefix == <<"s", "k", "-">>
TvlyPrefix == <<"t", "v", "l", "y", "-">>

\* ------------------------------------------------------------------ inputs
\* what a user may type into either password field
KeyInputs ==
  { <<>>,
    <<"s", "k", "-", "a">>,
    <<"s", "k">>,
    <<"x", "s", "k", "-">>,
    <<"t", "v", "l", "y", "-", "a">>,
    <<"t", "v", "l", "y">> }

\* what a user may type into the chat input (st.chat_input never yields "")
UserTexts == {"PING", "Who was Ada Lovelace?"}

\* content of the final message of an agent answer
Replies == {"PONG", "Ada"}

\* messages the agent may insert before its final answer (tool traffic)
ToolTraces ==
  { <<>>, <<[role |-> "tool", content |-> "wikipedia"]>> }

VARIABLES
  openai_key,     \* st.session_state.openai_key
  tavily_key,     \* st.session_state.tavily_key
  agent,          \* st.session_state.agent: None or a handle identity
  history,        \* st.session_state.agent_messages
  pc,             \* "idle": last run ended; "invoking": inside agent.invoke
  screen,         \* "gate": run ended at st.stop(); "chat": chat_input drawn
  error,          \* what the last run surfaced to the user
  lastOp,         \* the event that produced this state
  submitted,      \* the two text fields at the last Connect click
  ranBuild,       \* the CREATE AGENT block ran in the last script run
  builds,         \* create_react_agent calls so far (next handle identity)
  periodBuilds,   \* create_react_agent calls since the last reset
  periodInvoked,  \* handle identities invoked since the last reset
  periodTurns,    \* chat submissions since the last reset
  turnBase,       \* history when the current/last turn was submitted
  turnText,       \* user_input of the current/last turn
  invokeInput,    \* the "messages" argument of the current/last invoke
  invokeCount,    \* agent.invoke calls made for the current/last turn
  response        \* response["messages"] of the last returned invoke

vars ==
  << openai_key, tavily_key, agent, history, pc, screen, error, lastOp,
     submitted, ranBuild, builds, periodBuilds, periodInvoked, periodTurns,
     turnBase, turnText, invokeInput, invokeCount, response >>

\* ----------------------------------------------------------- pure helpers
\* str.startswith
StartsWith(s, p) ==
  /\ Len(s) >= Len(p)
  /\ SubSeq(s, 1, Len(p)) = p

\* Python truthiness of a str
Truthy(s) == Len(s) > 0

NoSubmission == [openai |-> <<>>, tavily |-> <<>>]

UserMsg(t) == [role |-> "user", content |-> t]

AssistantMsg(t) == [role |-> "assistant", content |-> t]

\* lines 77-85: the sidebar's "Connected" / "Not Connected" test
IsConnected(k) == Truthy(k)

\* fault variant of KeysNeeded: the gate forgets the Tavily key
KeysNeededOpenAIOnly(ok, tk) ==
  IF ~Truthy(ok) THEN {"openai"} ELSE {}

\* lines 106-111
KeysNeeded(ok, tk) ==
  (IF ~Truthy(ok) THEN {"openai"} ELSE {}) \cup
  (IF ~Truthy(tk) THEN {"tavily"} ELSE {})

\* fault variant of Valid: the second check overwrites the flag instead of
\* only ever lowering it
ValidLastCheckWins(needed, ok, tk) ==
  ~("tavily" \in needed /\ (~Truthy(tk) \/ ~StartsWith(tk, TvlyPrefix)))

\* lines 132-142: the valid flag of the Connect handler
Valid(needed, ok, tk) ==
  /\ ~("openai" \in needed /\ (~Truthy(ok) \/ ~StartsWith(ok, SkPrefix)))
  /\ ~("tavily" \in needed /\ (~Truthy(tk) \/ ~StartsWith(tk, TvlyPrefix)))

\* fault variant of NeedsBuild: the agent is rebuilt on every run
NeedsBuildAlways(ag) == TRUE

\* line 160
NeedsBuild(ag) == ag = None

\* fault variant of InvokeArgs: only the newest message is sent
InvokeArgsLastOnly(msgs) == <<msgs[Len(msgs)]>>

\* lines 233-235: the argument handed to agent.invoke
InvokeArgs(msgs) == msgs

\* fault variant of ResponseText: index 0 instead of -1
ResponseTextFirst(resp) == resp[1].content

\* line 238: response["messages"][-1].content
ResponseText(resp) == resp[Len(resp)].content

\* ------------------------------------------- one script run past the sidebar
\* lines 106-200 with session keys ok, tk and agent ag: the gate stops the
\* run while a key is missing, otherwise the agent is built if absent
GateStops(ok, tk) == KeysNeeded(ok, tk) # {}

BuiltInRun(ok, tk, ag) == ~GateStops(ok, tk) /\ NeedsBuild(ag)

AgentAfterRun(ok, tk, ag) ==
  IF BuiltInRun(ok, tk, ag) THEN builds + 1 ELSE ag

ScreenAfterRun(ok, tk) == IF GateStops(ok, tk) THEN "gate" ELSE "chat"

\* bookkeeping of a run that does not reach the chat input handler
RunBookkeeping(ok, tk, ag) ==
  /\ BuiltInRun(ok, tk, ag) => builds < MaxBuilds
  /\ agent' = AgentAfterRun(ok, tk, ag)
  /\ screen' = ScreenAfterRun(ok, tk)
  /\ ranBuild' = BuiltInRun(ok, tk, ag)
  /\ builds' = IF BuiltInRun(ok, tk, ag) THEN builds + 1 ELSE builds

\* ------------------------------------------------------------------- Init
\* lines 57-67 followed by the first run, which ends at the gate
Init ==
  /\ openai_key = <<>>
  /\ tavily_key = <<>>
  /\ agent = None
  /\ history = <<>>
  /\ pc = "idle"
  /\ screen = "gate"
  /\ error = "none"
  /\ lastOp = "init"
  /\ submitted = NoSubmission
  /\ ranBuild = FALSE
  /\ builds = 0
  /\ periodBuilds = 0
  /\ periodInvoked = {}
  /\ periodTurns = 0
  /\ turnBase = <<>>
  /\ turnText = ""
  /\ invokeInput = <<>>
  /\ invokeCount = 0
  /\ response = <<>>

\* ---------------------------------------------------------------- actions
\* a rerun with no widget triggered (menu "Rerun")
Rerun ==
  /\ pc = "idle"
  /\ RunBookkeeping(openai_key, tavily_key, agent)
  /\ periodBuilds' =
       IF BuiltInRun(openai_key, tavily_key, agent)
       THEN periodBuilds + 1 ELSE periodBuilds
  /\ error' = "none"
  /\ lastOp' = "rerun"
  /\ submitted' = NoSubmission
  /\ response' = <<>>
  /\ UNCHANGED << openai_key, tavily_key, history, pc, periodInvoked,
                  periodTurns, turnBase, turnText, invokeInput, invokeCount >>

\* fault variant of Reset: only the OpenAI key is cleared
ResetKeepsTavily ==
  /\ pc = "idle"
  /\ Truthy(openai_key) \/ Truthy(tavily_key)
  /\ openai_key' = <<>>
  /\ RunBookkeeping(<<>>, tavily_key, agent)
  /\ periodBuilds' = IF BuiltInRun(<<>>, tavily_key, agent) THEN 1 ELSE 0
  /\ periodInvoked' = {}
  /\ periodTurns' = 0
  /\ error' = "none"
  /\ lastOp' = "reset"
  /\ submitted' = NoSubmission
  /\ response' = <<>>
  /\ UNCHANGED << tavily_key, history, pc, turnBase, turnText, invokeInput,
                  invokeCount >>

\* fault variant of Reset: the transcript is cleared as well
ResetClearsHistory ==
  /\ pc = "idle"
  /\ Truthy(openai_key) \/ Truthy(tavily_key)
  /\ openai_key' = <<>>
  /\ tavily_key' = <<>>
  /\ history' = <<>>
  /\ RunBookkeeping(<<>>, <<>>, agent)
  /\ periodBuilds' = IF BuiltInRun(<<>>, <<>>, agent) THEN 1 ELSE 0
  /\ periodInvoked' = {}
  /\ periodTurns' = 0
  /\ error' = "none"
  /\ lastOp' = "reset"
  /\ submitted' = NoSubmission
  /\ response' = <<>>
  /\ UNCHANGED << pc, turnBase, turnText, invokeInput, invokeCount >>

\* lines 94-99: "Change API Keys", then the run restarted by st.rerun()
Reset ==
  /\ pc = "idle"
  /\ Truthy(openai_key) \/ Truthy(tavily_key)
  /\ openai_key' = <<>>
  /\ tavily_key' = <<>>
  /\ RunBookkeeping(<<>>, <<>>, agent)
  /\ periodBuilds' = IF BuiltInRun(<<>>, <<>>, agent) THEN 1 ELSE 0
  /\ periodInvoked' = {}
  /\ periodTurns' = 0
  /\ error' = "none"
  /\ lastOp' = "reset"
  /\ submitted' = NoSubmission
  /\ response' = <<>>
  /\ UNCHANGED << history, pc, turnBase, turnText, invokeInput, invokeCount >>

\* lines 113-153: the Connect click with oin, tin typed into the two fields
Connect(oin, tin) ==
  /\ pc = "idle"
  /\ screen = "gate"
  /\ LET needed == KeysNeeded(openai_key, tavily_key)
         ok == IF "openai" \in needed THEN oin ELSE openai_key
         tk == IF "tavily" \in needed THEN tin ELSE tavily_key
         valid == Valid(needed, ok, tk)
         newO == IF valid /\ "openai" \in needed THEN ok ELSE openai_key
         newT == IF valid /\ "tavily" \in needed THEN tk ELSE tavily_key
     IN /\ openai_key' = newO
        /\ tavily_key' = newT
        /\ IF valid
           THEN /\ RunBookkeeping(newO, newT, agent)
                /\ periodBuilds' =
                     IF BuiltInRun(newO, newT, agent)
                     THEN periodBuilds + 1 ELSE periodBuilds
                /\ error' = "none"
           ELSE /\ error' = "InvalidFormat"
                /\ UNCHANGED << agent, screen, builds, periodBuilds >>
                /\ ranBuild' = FALSE
  /\ lastOp' = "connect"
  /\ submitted' = [openai |-> oin, tavily |-> tin]
  /\ response' = <<>>
  /\ UNCHANGED << history, pc, periodInvoked, periodTurns, turnBase,
                  turnText, invokeInput, invokeCount >>

\* lines 216-235: a chat submission, up to the call of agent.invoke
Submit(t) ==
  /\ pc = "idle"
  /\ screen = "chat"
  /\ Len(history) + 2 <= MaxHistory
  /\ BuiltInRun(openai_key, tavily_key, agent) => builds < MaxBuilds
  /\ agent' = AgentAfterRun(openai_key, tavily_key, agent)
  /\ ranBuild' = BuiltInRun(openai_key, tavily_key, agent)
  /\ builds' =
       IF BuiltInRun(openai_key, tavily_key, agent) THEN builds + 1 ELSE builds
  /\ periodBuilds' =
       IF BuiltInRun(openai_key, tavily_key, agent)
       THEN periodBuilds + 1 ELSE periodBuilds
  /\ error' = "none"
  /\ submitted' = NoSubmission
  /\ response' = <<>>
  /\ IF GateStops(openai_key, tavily_key)
     THEN /\ screen' = "gate"
          /\ lastOp' = "rerun"
          /\ UNCHANGED << history, pc, periodInvoked, periodTurns, turnBase,
                          turnText, invokeInput, invokeCount >>
     ELSE /\ screen' = "chat"
          /\ history' = Append(history, UserMsg(t))
          /\ pc' = "invoking"
          /\ lastOp' = "submit"
          /\ turnBase' = history
          /\ turnText' = t
          /\ invokeInput' = InvokeArgs(history')
          /\ invokeCount' = 1
          /\ periodInvoked' = periodInvoked \cup {agent'}
          /\ periodTurns' = periodTurns + 1
  /\ UNCHANGED << openai_key, tavily_key >>

\* lines 233-245: agent.invoke returns; the answer is appended
InvokeReturns(trace, r) ==
  /\ pc = "invoking"
  /\ response' = invokeInput \o trace \o <<[role |-> "ai", content |-> r]>>
  /\ history' = Append(history, AssistantMsg(ResponseText(response')))
  /\ pc' = "idle"
  /\ error' = "none"
  /\ lastOp' = "respond"
  /\ ranBuild' = FALSE
  /\ UNCHANGED << openai_key, tavily_key, agent, screen, submitted, builds,
                  periodBuilds, periodInvoked, periodTurns, turnBase,
                  turnText, invokeInput, invokeCount >>

\* fault variant of InvokeRaises: the failure is caught and stored as the
\* assistant's answer
InvokeRaisesAppendsError ==
  /\ pc = "invoking"
  /\ pc' = "idle"
  /\ history' = Append(history, AssistantMsg("error"))
  /\ error' = "none"
  /\ lastOp' = "fail"
  /\ ranBuild' = FALSE
  /\ UNCHANGED << openai_key, tavily_key, agent, screen, submitted,
                  builds, periodBuilds, periodInvoked, periodTurns, turnBase,
                  turnText, invokeInput, invokeCount, response >>

\* line 233: agent.invoke raises; nothing catches it, the run ends there and
\* Streamlit shows the exception
InvokeRaises ==
  /\ pc = "invoking"
  /\ pc' = "idle"
  /\ error' = "DownstreamFailure"
  /\ lastOp' = "fail"
  /\ ranBuild' = FALSE
  /\ UNCHANGED << openai_key, tavily_key, agent, history, screen, submitted,
                  builds, periodBuilds, periodInvoked, periodTurns, turnBase,
                  turnText, invokeInput, invokeCount, response >>

Next ==
  \/ Rerun
  \/ Reset
  \/ \E oin \in KeyInputs, tin \in KeyInputs : Connect(oin, tin)
  \/ \E t \in UserTexts : Submit(t)
  \/ \E trace \in ToolTraces, r \in Replies : InvokeReturns(trace, r)
  \/ InvokeRaises

Spec == Init /\ [][Next]_vars

\* ------------------------------------------------------------- properties
IsPrefix(s, t) == Len(s) <= Len(t) /\ SubSeq(t, 1, Len(s)) = s

\* a Connect submission in which a credential the gate asks for is empty or
\* lacks its prefix (evaluated in the state the click happens in)
BadSubmission(oin, tin) ==
  \/ /\ ~Truthy(openai_key)
     /\ (oin = <<>> \/ ~StartsWith(oin, SkPrefix))
  \/ /\ ~Truthy(tavily_key)
     /\ (tin = <<>> \/ ~StartsWith(tin, TvlyPrefix))

KeyWellFormed(k, p) == k = <<>> \/ StartsWith(k, p)

BothConnected ==
  /\ Truthy(openai_key) /\ StartsWith(openai_key, SkPrefix)
  /\ Truthy(tavily_key) /\ StartsWith(tavily_key, TvlyPrefix)

\* C1: in the state right after the reset action the session's agent is
\* absent (None).
C1_ResetClearsAgent == lastOp = "reset" => agent = None

\* C2: a Connect submission with a required credential empty or without its
\* prefix is rejected with the invalid-format error and changes neither
\* stored key, nor the agent, nor the history.
C2_RejectedConnectLeavesState ==
  [][ (pc = "idle" /\ screen = "gate" /\ lastOp' = "connect"
         /\ BadSubmission(submitted'.openai, submitted'.tavily))
      => /\ error' = "InvalidFormat"
         /\ openai_key' = openai_key
         /\ tavily_key' = tavily_key
         /\ agent' = agent
         /\ history' = history ]_vars

\* C2 witness: a rejected submission whose OpenAI field was valid and whose
\* Tavily field was not, made in a session that already has an agent and a
\* transcript.
C2_Witness ==
  /\ lastOp = "connect"
  /\ error = "InvalidFormat"
  /\ StartsWith(submitted.openai, SkPrefix)
  /\ ~StartsWith(submitted.tavily, TvlyPrefix)
  /\ agent # None
  /\ Len(history) > 0

\* C3: when agent.invoke raises, no assistant entry is appended for the
\* turn, the failure is surfaced as an error, and the keys and the agent
\* handle stay as they were, the chat input still being on the page.
C3_FailedInvokeAppendsNothing ==
  [][ (pc = "invoking" /\ lastOp' = "fail")
      => /\ history' = history
         /\ history'[Len(history')] = UserMsg(turnText)
         /\ error' = "DownstreamFailure"
         /\ openai_key' = openai_key
         /\ tavily_key' = tavily_key
         /\ agent' = agent
         /\ agent' # None
         /\ screen' = "chat"
         /\ pc' = "idle" ]_vars

\* C3 witness: a failed turn after an earlier completed one.
C3_Witness ==
  /\ lastOp = "fail"
  /\ error = "DownstreamFailure"
  /\ Len(history) = 3
  /\ history[3].role = "user"

\* C4: after a turn whose invocation returned, the history is the history
\* at submission followed by the user entry with the literal input and the
\* assistant entry with the content of the last returned message.
C4_SuccessfulTurnAppendsPair ==
  lastOp = "respond" =>
    /\ Len(history) = Len(turnBase) + 2
    /\ history =
         turnBase \o << UserMsg(turnText),
                        AssistantMsg(response[Len(response)].content) >>
    /\ response[Len(response)].role = "ai"

\* C4 witness: a returned turn on a non-empty history where the agent
\* answered with tool traffic before its final message.
C4_Witness ==
  /\ lastOp = "respond"
  /\ Len(turnBase) > 0
  /\ Len(response) > Len(invokeInput) + 1

\* C5: between two resets the agent is constructed at most once and all
\* turns invoke one and the same handle.
C5_OneHandlePerPeriod ==
  /\ periodBuilds <= 1
  /\ Cardinality(periodInvoked) <= 1
  /\ periodTurns > 0 => periodInvoked = {agent}

\* C5 witness: a rerun after two turns in the period in which the agent
\* was built.
C5_Witness ==
  /\ lastOp = "rerun"
  /\ periodTurns >= 2
  /\ periodBuilds = 1

\* C6: right after the reset action both keys are empty, neither provider
\* shows as connected, and the page is back at the credential gate.
C6_ResetDisconnects ==
  lastOp = "reset" =>
    /\ openai_key = <<>>
    /\ tavily_key = <<>>
    /\ ~IsConnected(openai_key)
    /\ ~IsConnected(tavily_key)
    /\ screen = "gate"
    /\ pc = "idle"

\* C6 witness: a reset of a session with an agent and a transcript.
C6_Witness ==
  /\ lastOp = "reset"
  /\ agent # None
  /\ Len(history) > 0

\* C7: each stored key is empty or starts with its prefix, and a run builds
\* the agent or processes a chat turn only while both stored keys are
\* non-empty and prefix-valid.
C7_CredentialGating ==
  /\ KeyWellFormed(openai_key, SkPrefix)
  /\ KeyWellFormed(tavily_key, TvlyPrefix)
  /\ (ranBuild \/ pc = "invoking" \/ lastOp \in {"submit", "respond", "fail"})
       => BothConnected

\* C7 witness: a turn being processed by an agent that has been built.
C7_Witness ==
  /\ pc = "invoking"
  /\ builds = 1
  /\ agent # None

\* C8: whenever no turn is in progress the history has even length and
\* alternates user, assistant, ... starting with a user entry.
C8_HistoryAlternates ==
  pc = "idle" =>
    /\ Len(history) % 2 = 0
    /\ \A i \in 1..Len(history) :
         history[i].role = IF i % 2 = 1 THEN "user" ELSE "assistant"

C10_InvokeOnceWithFullHistory ==
  (pc = "invoking" \/ lastOp \in {"submit", "respond", "fail"}) =>
    /\ invokeCount = 1
    /\ invokeInput = Append(turnBase, UserMsg(turnText))
    /\ pc = "invoking" => invokeInput = history

\* C10 witness: a call in flight whose history ends with the user entry of
\* an earlier failed turn followed by the new one.
C10_Witness ==
  /\ pc = "invoking"
  /\ Len(turnBase) > 0
  /\ turnBase[Len(turnBase)].role = "user"

====
